---- MODULE Spec2Model ----
(***************************************************************************)
(* Model of src/main.rs: main() runs scan_dirs twice over the configured   *)
(* roots, first with estimate = true, then with estimate = false.          *)
(* scan_dirs folds every entry the walker yields into a ScanStats.         *)
(*                                                                         *)
(* Strings are sequences of one-character strings, so that split and       *)
(* to_lowercase are computed, not assumed.  A file's content is the        *)
(* little of it read_metadata looks at.                                    *)
(***************************************************************************)
EXTENDS Naturals, Sequences, FiniteSets, TLC

VARIABLES
    valid,           \* config.types.valid
    walks,           \* per root of config.directories.scan: what WalkDir yields
    pc,              \* position of main
    estimate,        \* scan_dirs' parameter of the running pass
    dirIdx,          \* position of the loop over config.directories.scan
    entIdx,          \* position of the loop over the root's entries
    scan_stats,      \* scan_dirs' accumulator
    estimate_stats,  \* main's `estimate`: what the first pass returned
    scan_results,    \* main's `scan_results`: what the second pass returned
    f_name,          \* scan_dirs' local, the last file name seen
    f_ext,           \* scan_dirs' local, the extension key computed from it
    probe,           \* what the last read_metadata call found in the file
    res,             \* scan_dirs' local, the last read_metadata result
    extractCalls     \* history: read_metadata calls made this pass

vars == <<valid, walks, pc, estimate, dirIdx, entIdx, scan_stats,
          estimate_stats, scan_results, f_name, f_ext, probe, res,
          extractCalls>>

-----------------------------------------------------------------------------
(* Bounds *)

MaxRoots == 2

MaxEntries == 3

MaxNameLen == 3

-----------------------------------------------------------------------------
(* Characters and strings *)

\* The characters used, in ASCII order ('.' 46, digits, upper case, lower case).
Ascii ==
    <<".", "0", "1", "2", "3", "4", "5", "6", "7", "8", "9",
      "A", "B", "C", "D", "E", "F", "G", "H", "I", "J", "K", "L", "M",
      "N", "O", "P", "Q", "R", "S", "T", "U", "V", "W", "X", "Y", "Z",
      "a", "b", "c", "d", "e", "f", "g", "h", "i", "j", "k", "l", "m",
      "n", "o", "p", "q", "r", "s", "t", "u", "v", "w", "x", "y", "z">>

Ord(c) == CHOOSE i \in 1..Len(Ascii) : Ascii[i] = c

FirstUpper == Ord("A")

FirstLower == Ord("a")

\* char::to_lowercase on the characters above
ToLowerChar(c) ==
    IF Ord(c) >= FirstUpper /\ Ord(c) < FirstLower
    THEN Ascii[Ord(c) - FirstUpper + FirstLower]
    ELSE c

\* str::to_lowercase
to_lowercase(s) == [i \in 1..Len(s) |-> ToLowerChar(s[i])]

\* str::split("."): the segments between the separators, never empty
RECURSIVE SplitFrom(_, _, _)
SplitFrom(s, i, cur) ==
    IF i > Len(s) THEN <<cur>>
    ELSE IF s[i] = "." THEN <<cur>> \o SplitFrom(s, i + 1, <<>>)
    ELSE SplitFrom(s, i + 1, Append(cur, s[i]))

split(s) == SplitFrom(s, 1, <<>>)

NONE == <<"N", "O", "N", "E">>

\* Iterator::last().unwrap_or("NONE")
last_unwrap_or(segs, dflt) == IF Len(segs) = 0 THEN dflt ELSE segs[Len(segs)]

\* A plausible slip: the first segment instead of the last.
Classify_first(name) ==
    to_lowercase(IF Len(split(name)) = 0 THEN NONE ELSE split(name)[1])

\* f_name.split(".").last().unwrap_or("NONE").to_lowercase()
Classify(name) == to_lowercase(last_unwrap_or(split(name), NONE))

\* A plausible slip: only the first configured type is compared.
IsValid_first(types, ext) == Len(types) > 0 /\ types[1] = ext

\* config.types.valid.iter().any(|t| t == &f_ext)
IsValid(types, ext) == \E i \in 1..Len(types) : types[i] = ext

\* byte-wise order of two names, as sort_by_file_name compares them
RECURSIVE NameLess(_, _)
NameLess(a, b) ==
    IF Len(b) = 0 THEN FALSE
    ELSE IF Len(a) = 0 THEN TRUE
    ELSE IF a[1] # b[1] THEN Ord(a[1]) < Ord(b[1])
    ELSE NameLess(Tail(a), Tail(b))

-----------------------------------------------------------------------------
(* read_metadata *)

\* Option<T> is a sequence of length 0 (None) or 1 (Some).
Some(x) == <<x>>

None == <<>>

NoInfo == [title |-> "", artist |-> "", album |-> "", genre |-> "",
           track |-> 0, duration |-> 0]

NoRes == [kind |-> "None", err |-> "", info |-> NoInfo]

Ok(t) == [kind |-> "Ok", err |-> "", info |-> t]

Err(e) == [kind |-> "Err", err |-> e, info |-> NoInfo]

\* Option::unwrap on None: the thread panics and the process ends.
Panic == [kind |-> "Panic", err |-> "unwrap on None", info |-> NoInfo]

\* What read_metadata can find in a file: whether Probe::open and read()
\* succeed, whether a primary tag exists, and the tag's optional fields.
File(o, r, t, ti, ar, al, ge, tr) ==
    [open |-> o, read |-> r, tag |-> t, title |-> ti, artist |-> ar,
     album |-> al, genre |-> ge, track |-> tr, duration |-> 1]

Full == File(TRUE, TRUE, TRUE, Some("T"), Some("A"), Some("L"), Some("G"), Some(1))

Sparse == File(TRUE, TRUE, TRUE, None, Some("A"), Some("L"), None, None)

NoArtist == File(TRUE, TRUE, TRUE, Some("T"), None, Some("L"), Some("G"), Some(1))

NoAlbum == File(TRUE, TRUE, TRUE, Some("T"), Some("A"), None, Some("G"), Some(1))

NoTag == File(TRUE, TRUE, FALSE, None, None, None, None, None)

Corrupt == File(TRUE, FALSE, FALSE, None, None, None, None, None)

Unreadable == File(FALSE, FALSE, FALSE, None, None, None, None, None)

Contents == {Full, Sparse, NoArtist, NoAlbum, NoTag, Corrupt, Unreadable}

NoProbe == File(FALSE, FALSE, FALSE, None, None, None, None, None)

read_metadata(c) ==
    IF ~c.open THEN Err("Io")
    ELSE IF ~c.read THEN Err("Codec")
    ELSE IF ~c.tag THEN Err("FakeTag")
    ELSE IF c.artist = None \/ c.album = None THEN Panic
    ELSE Ok([title    |-> IF c.title = None THEN "" ELSE c.title[1],
             artist   |-> c.artist[1],
             album    |-> c.album[1],
             genre    |-> IF c.genre = None THEN "" ELSE c.genre[1],
             track    |-> IF c.track = None THEN 0 ELSE c.track[1],
             duration |-> c.duration])

-----------------------------------------------------------------------------
(* ScanStats *)

\* The counters are u32; a pass over at most MaxEntries entries stays far
\* below 2^32, so the additions are modelled without wrap-around.

NewScanStats ==
    [other_files |-> 0, directories |-> 0, error_files |-> 0,
     valid_files |-> 0, found_types |-> <<>>]

\* HashMap<String, u32> as a function on its keys; <<>> is the empty map.
Keys(m) == DOMAIN m

RECURSIVE SumOver(_, _)
SumOver(m, ks) ==
    IF ks = {} THEN 0
    ELSE LET k == CHOOSE x \in ks : TRUE IN m[k] + SumOver(m, ks \ {k})

MapSum(m) == SumOver(m, Keys(m))

\* A plausible slip: or_insert(0), so a type's first file is not counted.
CountType_insert0(stats, ext) ==
    [stats EXCEPT !.found_types =
        IF ext \in Keys(@) THEN [@ EXCEPT ![ext] = @ + 1] ELSE (ext :> 0) @@ @]

\* found_types.entry(f_ext).and_modify(|ext| *ext += 1).or_insert(1)
CountType(stats, ext) ==
    [stats EXCEPT !.found_types =
        IF ext \in Keys(@) THEN [@ EXCEPT ![ext] = @ + 1] ELSE (ext :> 1) @@ @]

\* A branch of the loop body yields the statistics and whether the loop goes on.
Out(stats, ctl) == [stats |-> stats, ctl |-> ctl]

\* A plausible slip: the `continue` is missing, the entry is handled as a file too.
OnDir_fallthrough(stats) ==
    Out([stats EXCEPT !.directories = @ + 1, !.other_files = @ + 1], "continue")

\* is_dir: directories += 1; continue
OnDir(stats) == Out([stats EXCEPT !.directories = @ + 1], "continue")

\* A plausible slip: the result is unwrapped, an Err ends the process.
OnErr_unwrap(stats) == Out(stats, "abort")

\* A plausible slip: the `continue` is missing, valid_files is incremented too.
OnErr_fallthrough(stats) ==
    Out([stats EXCEPT !.error_files = @ + 1, !.valid_files = @ + 1], "continue")

\* A plausible slip: the error is printed and not counted.
OnErr_uncounted(stats) == Out(stats, "continue")

\* Err(e): error_files += 1; continue
OnErr(stats) == Out([stats EXCEPT !.error_files = @ + 1], "continue")

\* valid_files += 1
OnValid(stats) == Out([stats EXCEPT !.valid_files = @ + 1], "continue")

\* other_files += 1
OnOther(stats) == Out([stats EXCEPT !.other_files = @ + 1], "continue")

\* The panic of read_metadata unwinds through scan_dirs and main.
OnPanic(stats) == Out(stats, "abort")

\* A plausible slip: the mode test is dropped.
ShouldExtract_always(est) == TRUE

\* if !estimate
ShouldExtract(est) == ~est

-----------------------------------------------------------------------------
(* The configuration and the walker's entries *)

mp3 == <<"m", "p", "3">>

MP3 == <<"M", "P", "3">>

txt == <<"t", "x", "t">>

none == <<"n", "o", "n", "e">>

a_mp3 == <<"a", ".", "m", "p", "3">>

song_MP3 == <<"s", "o", "n", "g", ".", "M", "P", "3">>

b_txt == <<"b", ".", "t", "x", "t">>

noext == <<"n", "o", "e", "x", "t">>

gitignore == <<".", "g", "i", "t", "i", "g", "n", "o", "r", "e">>

archive_tar_gz == <<"a", "r", "c", "h", "i", "v", "e", ".", "t", "a", "r", ".", "g", "z">>

FileNames == {a_mp3, song_MP3, b_txt, noext, gitignore, archive_tar_gz}

\* config.types.valid: the lists tried
ValidLists == {<<mp3>>, <<MP3, txt>>}

\* A DirEntry, as far as scan_dirs reads it: file_type().is_dir(), file_name()
DirE == [is_dir |-> TRUE, name |-> <<>>]

FileE(n) == [is_dir |-> FALSE, name |-> n]

Entries == {DirE} \cup {FileE(n) : n \in FileNames}

RECURSIVE SeqsUpTo(_, _)
SeqsUpTo(S, n) ==
    IF n = 0 THEN {<<>>}
    ELSE LET shorter == SeqsUpTo(S, n - 1)
         IN shorter \cup {Append(q, x) : q \in {r \in shorter : Len(r) = n - 1}, x \in S}

\* The depths the entries of a walk can have: the root at 0, everything else
\* below it, and an entry at most one deeper than the entry before it, and
\* only when that one is a directory (a directory is yielded before what it
\* holds).
Depths(w) ==
    {d \in [1..Len(w) -> 0..(Len(w) - 1)] :
        /\ d[1] = 0
        /\ \A i \in 2..Len(w) :
              /\ d[i] >= 1
              /\ d[i] <= d[i - 1] + (IF w[i - 1].is_dir THEN 1 ELSE 0)}

\* Entries i < k are children of one directory when they have the same depth
\* and nothing between them is higher up.
Siblings(d, i, k) ==
    /\ i < k
    /\ d[i] = d[k]
    /\ \A j \in (i + 1)..(k - 1) : d[j] >= d[i]

\* sort_by_file_name: the children of each directory come in strictly
\* increasing byte order of their names. scan_dirs never reads the name of a
\* directory, so a directory can stand anywhere among its siblings; the order
\* binds the files of one directory.
SortedSiblings(w, d) ==
    \A i, k \in 1..Len(w) :
        (Siblings(d, i, k) /\ ~w[i].is_dir /\ ~w[k].is_dir) =>
            NameLess(w[i].name, w[k].name)

\* What WalkDir::new(dir).sort_by_file_name().follow_links(true) yields once the
\* errors are filtered out: nothing for a root that cannot be read, the file for
\* a root that is a file, and the root directory followed by what is under it,
\* each directory before its children and the children in sorted order.
RootWalks(n) ==
    {w \in SeqsUpTo(Entries, n) :
        Len(w) > 0 =>
            /\ w[1].is_dir \/ Len(w) = 1
            /\ \E d \in Depths(w) : SortedSiblings(w, d)}

\* The walks of at most r roots that yield at most n entries together.
RECURSIVE WalkSeqs(_, _)
WalkSeqs(r, n) ==
    IF r = 0 THEN {<<>>}
    ELSE {<<>>} \cup
         UNION {{<<w>> \o rest : rest \in WalkSeqs(r - 1, n - Len(w))} : w \in RootWalks(n)}

-----------------------------------------------------------------------------
(* main and scan_dirs *)

Init ==
    /\ valid \in ValidLists
    /\ walks \in WalkSeqs(MaxRoots, MaxEntries)
    /\ pc = "start"
    /\ estimate = TRUE
    /\ dirIdx = 1
    /\ entIdx = 1
    /\ scan_stats = NewScanStats
    /\ estimate_stats = NewScanStats
    /\ scan_results = NewScanStats
    /\ f_name = <<>>
    /\ f_ext = <<>>
    /\ probe = NoProbe
    /\ res = NoRes
    /\ extractCalls = 0

\* let estimate = scan_dirs(&config, true); let scan_results = scan_dirs(&config, false);
\* scan_dirs starts from a new ScanStats.
CallScanDirs ==
    /\ pc \in {"start", "estimated"}
    /\ estimate' = (pc = "start")
    /\ scan_stats' = NewScanStats
    /\ dirIdx' = 1
    /\ entIdx' = 1
    /\ pc' = "scan"
    /\ f_name' = <<>>
    /\ f_ext' = <<>>
    /\ probe' = NoProbe
    /\ res' = NoRes
    /\ extractCalls' = 0
    /\ UNCHANGED <<valid, walks, estimate_stats, scan_results>>

InLoop == pc = "scan" /\ dirIdx <= Len(walks)

AtEntry == InLoop /\ entIdx <= Len(walks[dirIdx])

CurEntry == walks[dirIdx][entIdx]

\* The end of one iteration of the inner loop.
Commit(out) ==
    /\ scan_stats' = out.stats
    /\ pc' = IF out.ctl = "abort" THEN "panicked" ELSE "scan"
    /\ entIdx' = entIdx + 1
    /\ UNCHANGED <<valid, walks, estimate, dirIdx, estimate_stats, scan_results>>

\* The inner loop's iterator is exhausted: the outer loop takes the next root.
NextRoot ==
    /\ InLoop
    /\ entIdx > Len(walks[dirIdx])
    /\ dirIdx' = dirIdx + 1
    /\ entIdx' = 1
    /\ UNCHANGED <<valid, walks, pc, estimate, scan_stats, estimate_stats,
                   scan_results, f_name, f_ext, probe, res, extractCalls>>

\* if entry.file_type().is_dir() { ...; continue; }
ScanDirectory ==
    /\ AtEntry
    /\ CurEntry.is_dir
    /\ Commit(OnDir(scan_stats))
    /\ UNCHANGED <<f_name, f_ext, probe, res, extractCalls>>

\* A file whose key is not in config.types.valid.
ScanOtherFile ==
    /\ AtEntry
    /\ ~CurEntry.is_dir
    /\ f_name' = CurEntry.name
    /\ f_ext' = Classify(CurEntry.name)
    /\ ~IsValid(valid, f_ext')
    /\ Commit(OnOther(CountType(scan_stats, f_ext')))
    /\ UNCHANGED <<probe, res, extractCalls>>

\* A file whose key is in config.types.valid, when read_metadata is not called.
ScanValidUnread ==
    /\ AtEntry
    /\ ~CurEntry.is_dir
    /\ f_name' = CurEntry.name
    /\ f_ext' = Classify(CurEntry.name)
    /\ IsValid(valid, f_ext')
    /\ ~ShouldExtract(estimate)
    /\ Commit(OnValid(CountType(scan_stats, f_ext')))
    /\ UNCHANGED <<probe, res, extractCalls>>

\* A file whose key is in config.types.valid, when read_metadata is called on
\* it: c is what the file holds.
ScanValidRead(c) ==
    /\ AtEntry
    /\ ~CurEntry.is_dir
    /\ f_name' = CurEntry.name
    /\ f_ext' = Classify(CurEntry.name)
    /\ IsValid(valid, f_ext')
    /\ ShouldExtract(estimate)
    /\ probe' = c
    /\ res' = read_metadata(c)
    /\ extractCalls' = extractCalls + 1
    /\ LET counted == CountType(scan_stats, f_ext')
       IN  Commit(CASE res'.kind = "Ok" -> OnValid(counted)
                    [] res'.kind = "Err" -> OnErr(counted)
                    [] OTHER -> OnPanic(counted))

ExtractOk == \E c \in Contents : read_metadata(c).kind = "Ok" /\ ScanValidRead(c)

ExtractErr == \E c \in Contents : read_metadata(c).kind = "Err" /\ ScanValidRead(c)

ExtractPanic == \E c \in Contents : read_metadata(c).kind = "Panic" /\ ScanValidRead(c)

\* scan_dirs returns scan_stats to main.
ReturnScanDirs ==
    /\ pc = "scan"
    /\ dirIdx > Len(walks)
    /\ IF estimate
       THEN /\ estimate_stats' = scan_stats
            /\ pc' = "estimated"
            /\ UNCHANGED scan_results
       ELSE /\ scan_results' = scan_stats
            /\ pc' = "done"
            /\ UNCHANGED estimate_stats
    /\ UNCHANGED <<valid, walks, estimate, dirIdx, entIdx, scan_stats, f_name,
                   f_ext, probe, res, extractCalls>>

Next ==
    \/ CallScanDirs
    \/ NextRoot
    \/ ScanDirectory
    \/ ScanOtherFile
    \/ ScanValidUnread
    \/ ExtractOk
    \/ ExtractErr
    \/ ExtractPanic
    \/ ReturnScanDirs

Spec == Init /\ [][Next]_vars

-----------------------------------------------------------------------------
(* The classifier alone, on every short file name *)

Alphabet == {".", "g", "Z", "3"}

ClassifyNames == FileNames \cup (SeqsUpTo(Alphabet, MaxNameLen) \ {<<>>})

ClassifyInit ==
    /\ valid = <<mp3>>
    /\ walks = <<>>
    /\ pc = "classify"
    /\ estimate = TRUE
    /\ dirIdx = 1
    /\ entIdx = 1
    /\ scan_stats = NewScanStats
    /\ estimate_stats = NewScanStats
    /\ scan_results = NewScanStats
    /\ f_name \in ClassifyNames
    /\ f_ext = <<>>
    /\ probe = NoProbe
    /\ res = NoRes
    /\ extractCalls = 0

\* let f_ext = f_name.split(".").last().unwrap_or("NONE").to_lowercase();
ClassifyStep ==
    /\ pc = "classify"
    /\ f_ext' = Classify(f_name)
    /\ pc' = "classified"
    /\ UNCHANGED <<valid, walks, estimate, dirIdx, entIdx, scan_stats,
                   estimate_stats, scan_results, f_name, probe, res, extractCalls>>

ClassifyNext == ClassifyStep

SpecClassify == ClassifyInit /\ [][ClassifyNext]_vars

-----------------------------------------------------------------------------
(* What the walker has yielded so far *)

RECURSIVE Concat(_, _)
Concat(ws, k) == IF k = 0 THEN <<>> ELSE Concat(ws, k - 1) \o ws[k]

\* The entries the running pass has taken from the walker.
Seen ==
    IF pc = "start" THEN <<>>
    ELSE IF dirIdx > Len(walks) THEN Concat(walks, Len(walks))
    ELSE Concat(walks, dirIdx - 1) \o SubSeq(walks[dirIdx], 1, entIdx - 1)

AllEntries == Concat(walks, Len(walks))

FilesOf(es) == {i \in 1..Len(es) : ~es[i].is_dir}

InList(types, k) == k \in {types[i] : i \in 1..Len(types)}

\* The file entries of es whose lowercased last segment is in the list.
ListedOf(es, types) == {i \in FilesOf(es) : InList(types, Classify(es[i].name))}

HasDot(name) == \E i \in 1..Len(name) : name[i] = "."

\* A leading '.' and no other.
LeadingDotOnly(name) == Len(name) > 0 /\ name[1] = "." /\ ~HasDot(Tail(name))

\* The states between two entries of a pass, and after it.
Between == pc \in {"scan", "estimated", "done"}

FileStep == ScanOtherFile \/ ScanValidUnread \/ ExtractOk \/ ExtractErr \/ ExtractPanic

Counted(st) == st.other_files + st.valid_files + st.error_files

-----------------------------------------------------------------------------
(* Claims *)

\* C1: in the real pass, between two entries and at the end of the pass,
\* other_files + valid_files + error_files is the number of file entries
\* taken from the walker so far; the returned statistics count every file.
C1_CountersPartitionFiles ==
    /\ (pc \in {"scan", "done"} /\ ~estimate) =>
            Counted(scan_stats) = Cardinality(FilesOf(Seen))
    /\ pc = "done" => Counted(scan_results) = Cardinality(FilesOf(AllEntries))

\* A finished real pass that counted a valid file and an error file.
C1_Witness ==
    /\ pc = "done"
    /\ scan_results.valid_files >= 1
    /\ scan_results.error_files >= 1

\* C2: a file whose tag is present but has no artist or no album is read
\* successfully, the missing field is the empty string, and the pass is not
\* aborted.
C2_MissingFieldDefaults ==
    (probe.open /\ probe.read /\ probe.tag /\ (probe.artist = None \/ probe.album = None)) =>
        /\ res.kind = "Ok"
        /\ res.info.artist = (IF probe.artist = None THEN "" ELSE probe.artist[1])
        /\ res.info.album = (IF probe.album = None THEN "" ELSE probe.album[1])
        /\ pc # "panicked"

\* C3: a failed extraction adds exactly 1 to error_files, leaves valid_files,
\* other_files and directories as they were, and the loop goes on with the
\* next entry; a successful extraction adds 1 to valid_files whatever
\* error_files holds.
C3_FailureIsolated ==
    [][/\ ExtractErr =>
            /\ scan_stats'.error_files = scan_stats.error_files + 1
            /\ scan_stats'.valid_files = scan_stats.valid_files
            /\ scan_stats'.other_files = scan_stats.other_files
            /\ scan_stats'.directories = scan_stats.directories
            /\ pc' = "scan"
            /\ dirIdx' = dirIdx
            /\ entIdx' = entIdx + 1
       /\ ExtractOk =>
            /\ scan_stats'.valid_files = scan_stats.valid_files + 1
            /\ scan_stats'.error_files = scan_stats.error_files
            /\ pc' = "scan"]_vars

\* A later file of the same extension was read successfully after a failure.
C3_Witness ==
    /\ pc = "scan"
    /\ ~estimate
    /\ res.kind = "Ok"
    /\ scan_stats.error_files = 1
    /\ scan_stats.valid_files = 1
    /\ DOMAIN scan_stats.found_types = {mp3}

\* C4: the key of a file name that holds no '.' is "none".
C4_NoDotGivesNone ==
    (pc = "classified" /\ ~HasDot(f_name)) => f_ext = none

\* C5 as stated: the key of a file name with a leading '.' and no other is
\* the empty string.
C5_LeadingDotGivesEmpty ==
    (pc = "classified" /\ LeadingDotOnly(f_name)) => f_ext = <<>>

\* C5 as amended: the key of a file name with a leading '.' and no other is
\* the lowercased text after that dot.
C5_LeadingDotGivesRest ==
    (pc = "classified" /\ LeadingDotOnly(f_name)) =>
        /\ Len(f_ext) = Len(f_name) - 1
        /\ \A i \in 1..Len(f_ext) : f_ext[i] = ToLowerChar(f_name[i + 1])

\* ".gitignore" has been classified.
C5_Witness ==
    /\ pc = "classified"
    /\ f_name = gitignore
    /\ f_ext = Tail(gitignore)

\* C6: in either mode the counts of found_types add up to the number of file
\* entries taken so far; a directory entry leaves found_types as it was, and
\* a file entry adds exactly 1 to the count of its key and to no other.
C6_TypesCountFiles ==
    /\ [](pc \in {"scan", "estimated", "done", "panicked"} =>
            MapSum(scan_stats.found_types) = Cardinality(FilesOf(Seen)))
    /\ [][/\ ScanDirectory => scan_stats'.found_types = scan_stats.found_types
          /\ FileStep =>
                LET old == scan_stats.found_types
                    new == scan_stats'.found_types
                    k   == Classify(CurEntry.name)
                IN  /\ DOMAIN new = DOMAIN old \cup {k}
                    /\ new[k] = (IF k \in DOMAIN old THEN old[k] ELSE 0) + 1
                    /\ \A j \in DOMAIN old \ {k} : new[j] = old[j]]_vars

\* An estimate pass has counted two files of one type and the real pass an
\* error file.
C6_Witness ==
    /\ pc = "done"
    /\ \E k \in DOMAIN estimate_stats.found_types : estimate_stats.found_types[k] = 2
    /\ scan_results.error_files >= 1
    /\ scan_results.directories >= 1

\* C7: when both passes have returned, found_types, other_files and
\* directories of the two are the same, and valid_files are the same only if
\* the real pass counted no error file.
C7_PassesAgree ==
    pc = "done" =>
        /\ scan_results.found_types = estimate_stats.found_types
        /\ scan_results.other_files = estimate_stats.other_files
        /\ scan_results.directories = estimate_stats.directories
        /\ (scan_results.valid_files = estimate_stats.valid_files =>
                scan_results.error_files = 0)

\* Both passes returned, over files and a directory, and valid_files differ.
C7_Witness ==
    /\ pc = "done"
    /\ estimate_stats.directories >= 1
    /\ estimate_stats.other_files >= 1
    /\ estimate_stats.valid_files = 1
    /\ scan_results.valid_files = 0

\* C8: in the estimate pass read_metadata is never called and error_files
\* is 0; the statistics the estimate pass returns hold no error file.
C8_EstimateReadsNothing ==
    /\ (estimate /\ pc \in {"scan", "estimated"}) =>
            /\ extractCalls = 0
            /\ scan_stats.error_files = 0
            /\ res = NoRes
    /\ estimate_stats.error_files = 0

\* The estimate pass has counted a valid file.
C8_Witness ==
    /\ pc = "estimated"
    /\ estimate_stats.valid_files >= 2

\* C9: a directory entry adds exactly 1 to directories and changes no other
\* field; a file entry leaves directories as it was.
C9_DirectoryFrame ==
    [][/\ ScanDirectory =>
            scan_stats' = [scan_stats EXCEPT !.directories = @ + 1]
       /\ FileStep => scan_stats'.directories = scan_stats.directories]_vars

\* A directory was counted after files were.
C9_Witness ==
    /\ pc = "scan"
    /\ scan_stats.directories = 2
    /\ scan_stats.other_files >= 1

\* C10: between two entries and at the end of a pass, valid_files (in the
\* real pass, valid_files + error_files) is the number of files taken so far
\* whose lowercased key is in config.types.valid, and other_files the number
\* of the others; song.MP3 is never counted as other when the list holds "mp3".
C10_RoutedByValidList ==
    /\ [](Between =>
            /\ scan_stats.valid_files + scan_stats.error_files
                    = Cardinality(ListedOf(Seen, valid))
            /\ scan_stats.other_files
                    = Cardinality(FilesOf(Seen) \ ListedOf(Seen, valid))
            /\ estimate => scan_stats.error_files = 0)
    /\ [](pc \in {"estimated", "done"} =>
            estimate_stats.valid_files = Cardinality(ListedOf(AllEntries, valid)))
    /\ [](pc = "done" =>
            scan_results.valid_files + scan_results.error_files
                = Cardinality(ListedOf(AllEntries, valid)))
    /\ [][(FileStep /\ CurEntry.name = song_MP3 /\ InList(valid, mp3)) =>
            /\ f_ext' = mp3
            /\ scan_stats'.other_files = scan_stats.other_files
            /\ (estimate => scan_stats'.valid_files = scan_stats.valid_files + 1)]_vars

\* song.MP3 was counted as a valid file by both passes, beside another file.
C10_Witness ==
    /\ pc = "done"
    /\ InList(valid, mp3)
    /\ \E i \in FilesOf(AllEntries) : AllEntries[i].name = song_MP3
    /\ estimate_stats.valid_files >= 1
    /\ scan_results.valid_files >= 1
    /\ scan_results.other_files >= 1

====
